---- MODULE Spec2Model ----
(***************************************************************************)
(* rustadup: duplicate-file finder (src/main.rs).                          *)
(*                                                                         *)
(* The three strategies file_names, file_names_sizes and file_hashes and   *)
(* the streaming hasher `process` are modelled as one state machine.  The  *)
(* directory walker is the external producer: it yields one entry at a     *)
(* time and may stop after any number of entries.  Metadata reads, opens   *)
(* and reads are calls into the operating system, so their results (the    *)
(* size, the content, how many bytes one read returns, or an error) are    *)
(* chosen by the environment.                                              *)
(***************************************************************************)
EXTENDS Integers, Sequences, FiniteSets, TLC

VARIABLES
    mode,       \* subcommand: "n", "s" or "h"                (main.rs:55-60)
    bigfile,    \* hash.is_present("big-files")               (main.rs:59)
    smallfile,  \* hash.is_present("small-files")             (main.rs:59)
    pc,         \* "loop" | "process" | "report" | "done"
    seen,       \* history: one record per entry the producer yielded
    filenames,  \* the HashMap key -> Vec<DirEntry> (entries by yield index)
    reader,     \* bytes the open reader has not returned yet
    sh,         \* hasher state: the bytes fed to update() so far
    open,       \* yield indices of the entries whose File is open
    reported,   \* keys the report loop has printed
    output,     \* lines printed to stdout
    result      \* "running" | "Ok" | "Err": what the strategy returned

vars == <<mode, bigfile, smallfile, pc, seen, filenames, reader, sh, open,
          reported, output, result>>

(***************************************************************************)
(* Bounds of the model.                                                    *)
(***************************************************************************)
\* Longest entry stream the producer yields.
MaxEntries == 3

\* Buffer size of `process`, scaled down from 1024 so that every split of a
\* content into reads can be enumerated; `process` only compares n with it.
BUFFER_SIZE == 2

(***************************************************************************)
(* u64 sizes.  The thresholds exceed the 32-bit integers of TLC, so a size *)
(* is kept as two limbs <<hi, lo>> standing for hi * Limb + lo, lo < Limb. *)
(***************************************************************************)
Limb == 1024 * 1024

U64(n) == <<n \div Limb, n % Limb>>

U64Mul(k, a) == <<k * a[1] + ((k * a[2]) \div Limb), (k * a[2]) % Limb>>

U64Succ(a) == IF a[2] + 1 = Limb THEN <<a[1] + 1, 0>> ELSE <<a[1], a[2] + 1>>

U64Pred(a) == IF a[2] = 0 THEN <<a[1] - 1, Limb - 1>> ELSE <<a[1], a[2] - 1>>

U64Lt(a, b) == a[1] < b[1] \/ (a[1] = b[1] /\ a[2] < b[2])

U64Gt(a, b) == U64Lt(b, a)

\* const SMALL_FILE_SIZE: u64 = 1024 * 1024 * 8;
SMALL_FILE_SIZE == U64Mul(1024, U64Mul(1024, U64(8)))

\* const BIG_FILE_SIZE: u64 = 1024 * SMALL_FILE_SIZE;
BIG_FILE_SIZE == U64Mul(1024, SMALL_FILE_SIZE)

\* The sizes the documentation states: "1 Gb" for big files (the comment of
\* BIG_FILE_SIZE and the help of -b) and 8 MiB for small ones.
OneGiB == U64Mul(1024, U64Mul(1024, U64(1024)))
EightMiB == U64Mul(8, U64Mul(1024, U64(1024)))

(***************************************************************************)
(* The environment: what the walker and the file system can produce.       *)
(***************************************************************************)
\* File names are OS strings: byte sequences that need not be UTF-8.
\* "a", "a\xFF" and "a\xFE": 0xFE and 0xFF never occur in valid UTF-8.
Names == {<<97>>, <<97, 255>>, <<97, 254>>}

\* Sizes metadata() can report: on and next to each threshold.
Sizes == {U64Pred(SMALL_FILE_SIZE), SMALL_FILE_SIZE, U64Succ(OneGiB),
          BIG_FILE_SIZE, U64Succ(BIG_FILE_SIZE)}

\* Contents a file can have (bytes).  The size metadata reports is that of
\* the directory entry (walkdir does not follow links) and is read before
\* the file is opened, so it does not determine the content read.
Contents == {<<7, 7>>, <<7, 9>>}

NoSize == <<0 - 1, 0 - 1>>

\* String::from(entry.file_name().to_string_lossy()): every byte that is
\* not part of valid UTF-8 becomes U+FFFD (65533); ASCII is kept.
ToStringLossy(name) ==
    [i \in 1..Len(name) |-> IF name[i] < 128 THEN name[i] ELSE 65533]

\* sh.finalize(): SHA-256 of the bytes fed, taken to be collision free (a
\* digest is written as the byte string it is the digest of).
Finalize(fed) == fed

\* Mutant of the size policy: the big-file bound taken inclusive (>=).
SizePolicySkipInclusive(f_size) ==
    \/ (bigfile /\ ~U64Lt(f_size, BIG_FILE_SIZE))
    \/ (smallfile /\ U64Lt(f_size, SMALL_FILE_SIZE))

\* (bigfile && f_size > BIG_FILE_SIZE) || (smallfile && f_size < SMALL_FILE_SIZE)
SizePolicySkip(f_size) ==
    \/ (bigfile /\ U64Gt(f_size, BIG_FILE_SIZE))
    \/ (smallfile /\ U64Lt(f_size, SMALL_FILE_SIZE))

\* Mutant of or_insert: filenames.insert(key, Vec::new()), which replaces
\* the list a key already has.
OrInsertOverwrite(map, key) ==
    [k \in DOMAIN map \cup {key} |-> IF k = key THEN <<>> ELSE map[k]]

\* filenames.entry(key).or_insert(Vec::new())
OrInsert(map, key) ==
    IF key \in DOMAIN map
    THEN map
    ELSE [k \in DOMAIN map \cup {key} |-> IF k = key THEN <<>> ELSE map[k]]

\* Mutant of push: counter.insert(0, entry).
PushFront(map, key, entry) == [map EXCEPT ![key] = <<entry>> \o @]

\* counter.push(entry)
Push(map, key, entry) == [map EXCEPT ![key] = Append(@, entry)]

\* let counter = filenames.entry(key).or_insert(Vec::new()); counter.push(entry);
Insert(map, key, entry) == Push(OrInsert(map, key), key, entry)

\* The record kept of a yielded entry: what the walker and the file system
\* gave for it and what the strategy did with it.
Entry(name, size, opened, content, digest, key, status) ==
    [name |-> name, size |-> size, opened |-> opened, content |-> content,
     digest |-> digest, key |-> key, status |-> status]

(***************************************************************************)
(* Initial state: main has parsed the arguments and calls the strategy.    *)
(***************************************************************************)
Init ==
    /\ mode \in {"n", "s", "h"}
    /\ bigfile \in BOOLEAN
    /\ smallfile \in BOOLEAN
    /\ (mode # "h" => ~bigfile /\ ~smallfile)
    /\ pc = "loop"
    /\ seen = <<>>
    /\ filenames = <<>>
    /\ reader = <<>>
    /\ sh = <<>>
    /\ open = {}
    /\ reported = {}
    /\ output = <<>>
    /\ result = "running"

\* Mutant of the drop: the handle is kept (leaked) past the loop body.
DropReaderLeak(handles, idx) == handles

\* The reader, and with it the File, goes out of scope: the handle is closed.
DropReader(handles, idx) == handles \ {idx}

\* Mutant of the error return: the error is kept but the loop is only left
\* (break), so the report still runs.
ReturnErrThenReport ==
    /\ pc' = "report"
    /\ result' = "Err"
    /\ open' = {}
    /\ reader' = <<>>
    /\ sh' = <<>>
    /\ UNCHANGED <<mode, bigfile, smallfile, filenames, reported, output>>

\* `?` on an Err: the function returns the error; the locals are dropped.
ReturnErr ==
    /\ pc' = "done"
    /\ result' = "Err"
    /\ open' = {}
    /\ reader' = <<>>
    /\ sh' = <<>>
    /\ UNCHANGED <<mode, bigfile, smallfile, filenames, reported, output>>

(***************************************************************************)
(* file_names: one iteration of the loop of lines 72-76.                   *)
(***************************************************************************)
FileNamesIter ==
    /\ mode = "n" /\ pc = "loop" /\ Len(seen) < MaxEntries
    /\ \E name \in Names :
         LET f_name == ToStringLossy(name)
             key == <<f_name>>
             idx == Len(seen) + 1
         IN /\ filenames' = Insert(filenames, key, idx)
            /\ seen' = Append(seen, Entry(name, NoSize, FALSE, <<>>, <<>>, key, "grouped"))
    /\ UNCHANGED <<mode, bigfile, smallfile, pc, reader, sh, open, reported,
                   output, result>>

(***************************************************************************)
(* file_names_sizes: one iteration of the loop of lines 90-95.             *)
(***************************************************************************)
FileNamesSizesIter ==
    /\ mode = "s" /\ pc = "loop" /\ Len(seen) < MaxEntries
    /\ \E name \in Names, f_size \in Sizes :
         LET f_name == ToStringLossy(name)
             key == <<f_name, f_size>>
             idx == Len(seen) + 1
         IN /\ filenames' = Insert(filenames, key, idx)
            /\ seen' = Append(seen, Entry(name, f_size, FALSE, <<>>, <<>>, key, "grouped"))
    /\ UNCHANGED <<mode, bigfile, smallfile, pc, reader, sh, open, reported,
                   output, result>>

\* entry.metadata()? fails (line 92).
FileNamesSizesMetadataErr ==
    /\ mode = "s" /\ pc = "loop" /\ Len(seen) < MaxEntries
    /\ \E name \in Names :
         seen' = Append(seen, Entry(name, NoSize, FALSE, <<>>, <<>>, <<>>, "failed"))
    /\ ReturnErr

(***************************************************************************)
(* file_hashes: the loop of lines 109-120.                                 *)
(***************************************************************************)
\* entry.metadata()? fails (line 111).
FileHashesMetadataErr ==
    /\ mode = "h" /\ pc = "loop" /\ Len(seen) < MaxEntries
    /\ \E name \in Names :
         seen' = Append(seen, Entry(name, NoSize, FALSE, <<>>, <<>>, <<>>, "failed"))
    /\ ReturnErr

\* The size policy excludes the entry: continue (lines 112-114).
FileHashesSkip ==
    /\ mode = "h" /\ pc = "loop" /\ Len(seen) < MaxEntries
    /\ \E name \in Names, f_size \in Sizes :
         /\ SizePolicySkip(f_size)
         /\ seen' = Append(seen, Entry(name, f_size, FALSE, <<>>, <<>>, <<>>, "skipped"))
    /\ UNCHANGED <<mode, bigfile, smallfile, pc, filenames, reader, sh, open,
                   reported, output, result>>

\* fs::File::open(entry.path())? fails (line 115).
FileHashesOpenErr ==
    /\ mode = "h" /\ pc = "loop" /\ Len(seen) < MaxEntries
    /\ \E name \in Names, f_size \in Sizes :
         /\ ~SizePolicySkip(f_size)
         /\ seen' = Append(seen, Entry(name, f_size, FALSE, <<>>, <<>>, <<>>, "failed"))
    /\ ReturnErr

\* The file is opened and wrapped in a reader; process starts with a fresh
\* hasher (lines 115-117, 132-133).
FileHashesOpen ==
    /\ mode = "h" /\ pc = "loop" /\ Len(seen) < MaxEntries
    /\ \E name \in Names, f_size \in Sizes, content \in Contents :
         /\ ~SizePolicySkip(f_size)
         /\ seen' = Append(seen, Entry(name, f_size, TRUE, content, <<>>, <<>>, "hashing"))
         /\ reader' = content
    /\ open' = open \cup {Len(seen) + 1}
    /\ sh' = <<>>
    /\ pc' = "process"
    /\ UNCHANGED <<mode, bigfile, smallfile, filenames, reported, output, result>>

(***************************************************************************)
(* process: one iteration of the loop of lines 134-140.                    *)
(***************************************************************************)
\* What one reader.read(&mut buffer) may return: 0 at the end of the stream,
\* else between 1 byte and what fits the buffer (a read may be short).
ReadCounts(rest) ==
    IF rest = <<>> THEN {0}
    ELSE 1..(IF Len(rest) < BUFFER_SIZE THEN Len(rest) ELSE BUFFER_SIZE)

\* if n == 0 || n < BUFFER_SIZE { break; }
ProcessBreak(n) == n = 0 \/ n < BUFFER_SIZE

\* A read that does not end the loop: the bytes are fed to the hasher.
ProcessRead ==
    /\ pc = "process"
    /\ \E n \in ReadCounts(reader) :
         /\ ~ProcessBreak(n)
         /\ sh' = sh \o SubSeq(reader, 1, n)
         /\ reader' = SubSeq(reader, n + 1, Len(reader))
    /\ UNCHANGED <<mode, bigfile, smallfile, pc, seen, filenames, open,
                   reported, output, result>>

\* The read that ends the loop: process returns the digest, file_hashes
\* inserts the entry under its key and the reader goes out of scope at the
\* end of the loop body (lines 136-141, 117-120).
ProcessLastRead ==
    /\ pc = "process"
    /\ \E n \in ReadCounts(reader) :
         /\ ProcessBreak(n)
         /\ LET idx == Len(seen)
                e == seen[idx]
                f_name == ToStringLossy(e.name)
                f_hash == Finalize(sh \o SubSeq(reader, 1, n))
                key == <<f_name, e.size, f_hash>>
            IN /\ filenames' = Insert(filenames, key, idx)
               /\ seen' = [seen EXCEPT ![idx] =
                             Entry(e.name, e.size, TRUE, e.content, f_hash, key, "grouped")]
    /\ open' = DropReader(open, Len(seen))
    /\ reader' = <<>>
    /\ sh' = <<>>
    /\ pc' = "loop"
    /\ UNCHANGED <<mode, bigfile, smallfile, reported, output, result>>

\* reader.read(&mut buffer)? fails (line 135): process and file_hashes return
\* the error.
ProcessReadErr ==
    /\ pc = "process"
    /\ seen' = [seen EXCEPT ![Len(seen)].status = "failed"]
    /\ ReturnErr

(***************************************************************************)
(* The report loops (lines 77-82, 96-101, 121-126).  They start when the   *)
(* producer is exhausted, which it may be after any number of entries.     *)
(***************************************************************************)
\* Mutant of the filter: .filter(|e| e.1.len() > 2).
ReportFilterOverTwo(files) == Len(files) > 2

\* .filter(|e| e.1.len() != 1)
ReportFilter(files) == Len(files) # 1

\* println!("{filename}:") then one println!("\t{filepath}") per member.
GroupLines(key) ==
    <<<<"name", key[1]>>>> \o
    [i \in 1..Len(filenames[key]) |-> <<"path", filenames[key][i]>>]

\* The map is iterated in an unspecified order: any group not yet visited
\* that passes the filter is printed next.
Report ==
    /\ pc \in {"loop", "report"}
    /\ \E key \in DOMAIN filenames \ reported :
         /\ ReportFilter(filenames[key])
         /\ output' = output \o GroupLines(key)
         /\ reported' = reported \cup {key}
    /\ pc' = "report"
    /\ UNCHANGED <<mode, bigfile, smallfile, seen, filenames, reader, sh,
                   open, result>>

\* Every group that passes the filter has been printed: Ok(()).
ReturnOk ==
    /\ pc \in {"loop", "report"}
    /\ \A key \in DOMAIN filenames \ reported : ~ReportFilter(filenames[key])
    /\ pc' = "done"
    /\ result' = "Ok"
    /\ UNCHANGED <<mode, bigfile, smallfile, seen, filenames, reader, sh, open,
                   reported, output>>

Next ==
    \/ FileNamesIter
    \/ FileNamesSizesIter
    \/ FileNamesSizesMetadataErr
    \/ FileHashesMetadataErr
    \/ FileHashesSkip
    \/ FileHashesOpenErr
    \/ FileHashesOpen
    \/ ProcessRead
    \/ ProcessLastRead
    \/ ProcessReadErr
    \/ Report
    \/ ReturnOk

Spec == Init /\ [][Next]_vars

(***************************************************************************)
(* Vocabulary of the properties.                                           *)
(***************************************************************************)
Idx == 1..Len(seen)

Members(key) == {filenames[key][p] : p \in 1..Len(filenames[key])}

\* How many times entry i occurs in the whole table.
Occurrences(i) ==
    Cardinality({<<key, p>> \in
                   UNION {{key} \X (1..Len(filenames[key])) : key \in DOMAIN filenames} :
                   filenames[key][p] = i})

SameGroup(i, j) == \E key \in DOMAIN filenames : {i, j} \subseteq Members(key)

\* The key the active strategy derives from an entry.
ExpectedKey(e) ==
    CASE mode = "n" -> <<ToStringLossy(e.name)>>
      [] mode = "s" -> <<ToStringLossy(e.name), e.size>>
      [] OTHER      -> <<ToStringLossy(e.name), e.size, e.digest>>

Hashed(i) == mode = "h" /\ seen[i].status = "grouped"

\* C1: whatever way the reader splits a content into reads, the digest
\* process returns is the digest of the full content, so two runs over the
\* same content return the same digest.
C1_DigestOfFullContent ==
    /\ \A i \in Idx : Hashed(i) => seen[i].digest = Finalize(seen[i].content)
    /\ \A i, j \in Idx :
         (Hashed(i) /\ Hashed(j) /\ seen[i].content = seen[j].content)
            => seen[i].digest = seen[j].digest

\* C2: hash strategy, both skip flags off, no error: entries with equal name
\* and size and identical content share a group, and entries whose contents
\* differ are in different groups.
C2_HashGroupsByContent ==
    (mode = "h" /\ ~bigfile /\ ~smallfile /\ result = "Ok") =>
        \A i, j \in Idx :
            /\ ( /\ seen[i].name = seen[j].name
                 /\ seen[i].size = seen[j].size
                 /\ seen[i].content = seen[j].content ) => SameGroup(i, j)
            /\ seen[i].content # seen[j].content => ~SameGroup(i, j)

\* C3: name-only strategy: two entries share a group exactly when their base
\* names are identical, and the number of reported groups is the number of
\* names that occur more than once.
C3_NamePartition ==
    mode = "n" =>
        /\ \A i, j \in Idx : SameGroup(i, j) <=> seen[i].name = seen[j].name
        /\ result = "Ok" =>
             Cardinality(reported) =
             Cardinality({name \in Names :
                 Cardinality({i \in Idx : seen[i].name = name}) > 1})

\* C4: the thresholds are 1 GiB and 8 MiB: with skip-big a file of
\* 1,073,741,825 bytes is excluded from hashing, and with skip-small alone a
\* file is excluded exactly when its size is below 8,388,608 bytes.
C4_DocumentedThresholds ==
    mode = "h" =>
        \A i \in Idx : seen[i].size # NoSize =>
            /\ (bigfile /\ seen[i].size = U64Succ(OneGiB)) => ~seen[i].opened
            /\ (smallfile /\ ~bigfile)
                  => (seen[i].status = "skipped" <=> U64Lt(seen[i].size, EightMiB))

\* C5: an entry of the hash strategy is skipped if and only if (skip-big and
\* size > big threshold) or (skip-small and size < small threshold); both
\* bounds are strict and with both flags off nothing is skipped.
C5_SizePolicy ==
    mode = "h" =>
        \A i \in Idx : seen[i].size # NoSize =>
            /\ seen[i].status = "skipped" <=>
                  \/ (bigfile /\ U64Gt(seen[i].size, BIG_FILE_SIZE))
                  \/ (smallfile /\ U64Lt(seen[i].size, SMALL_FILE_SIZE))
            /\ (~bigfile /\ ~smallfile) => seen[i].status # "skipped"
            /\ seen[i].size = BIG_FILE_SIZE => seen[i].status # "skipped"
            /\ seen[i].size = SMALL_FILE_SIZE => seen[i].status # "skipped"
            /\ (bigfile /\ seen[i].size = U64Succ(BIG_FILE_SIZE))
                  => seen[i].status = "skipped"

C5_Witness ==
    /\ mode = "h" /\ bigfile /\ smallfile /\ Len(seen) = 3
    /\ \E i, j, k \in Idx :
         /\ seen[i].size = BIG_FILE_SIZE /\ seen[i].status = "grouped"
         /\ seen[j].size = U64Succ(BIG_FILE_SIZE) /\ seen[j].status = "skipped"
         /\ seen[k].size = U64Pred(SMALL_FILE_SIZE) /\ seen[k].status = "skipped"

\* C6: when reading metadata, opening or reading fails for an entry, the run
\* ends with an error, nothing of the report has been printed, however many
\* entries were grouped before, and no further entry is processed.
C6_AbortOnError ==
    /\ \A i \in Idx : seen[i].status = "failed" =>
         /\ i = Len(seen)
         /\ result = "Err"
    /\ result = "Err" =>
         /\ mode \in {"s", "h"}
         /\ seen # <<>> /\ seen[Len(seen)].status = "failed"
         /\ output = <<>> /\ reported = {}
         /\ pc = "done"
         /\ ~ENABLED Next

C6_Witness ==
    /\ result = "Err" /\ output = <<>> /\ Len(seen) = 3
    /\ seen[3].opened
    /\ \E key \in DOMAIN filenames : Len(filenames[key]) = 2

\* Members of every group are in the order the producer yielded them.
InYieldOrder ==
    /\ \A key \in DOMAIN filenames :
         \A p, q \in 1..Len(filenames[key]) :
             p < q => filenames[key][p] < filenames[key][q]
    /\ \A p \in 1..(Len(output) - 1) :
         (output[p][1] = "path" /\ output[p + 1][1] = "path")
            => output[p][2] < output[p + 1][2]

\* A step never removes or reorders a member: every list is extended at its
\* end, if at all.
AppendOnly ==
    \A key \in DOMAIN filenames :
        /\ key \in DOMAIN filenames'
        /\ Len(filenames'[key]) >= Len(filenames[key])
        /\ SubSeq(filenames'[key], 1, Len(filenames[key])) = filenames[key]

\* C7: in every strategy and after every prefix of the stream, the members
\* of a group are in the producer's order, and an insert only appends.
C7_GroupOrder == [](InYieldOrder) /\ [][AppendOnly]_vars

C7_Witness ==
    /\ Len(seen) = 3
    /\ \E key \in DOMAIN filenames : filenames[key] = <<1, 3>>
    /\ \E key \in DOMAIN filenames : filenames[key] = <<2>>

\* C8: the groups emitted are exactly the groups of the final table with
\* two or more members; no list of the table is empty, so the filter
\* len() != 1 is the filter len() >= 2.
C8_ReportExact ==
    /\ \A key \in DOMAIN filenames : Len(filenames[key]) >= 1
    /\ \A key \in reported :
         key \in DOMAIN filenames /\ Len(filenames[key]) >= 2
    /\ Len(SelectSeq(output, LAMBDA line : line[1] = "name")) = Cardinality(reported)
    /\ result = "Ok" =>
         reported = {key \in DOMAIN filenames : Len(filenames[key]) >= 2}

C8_Witness ==
    /\ result = "Ok"
    /\ \E key \in reported : Len(filenames[key]) = 2
    /\ \E key \in DOMAIN filenames \ reported : Len(filenames[key]) = 1

\* C9: after each loop iteration (and from then on, unless the run failed),
\* every entry processed and not excluded by the size policy is in exactly
\* one group, that of its key, exactly once; every excluded entry is in no
\* group and was never opened or hashed.
C9_GroupTable ==
    (pc # "process" /\ result # "Err") =>
        \A i \in Idx :
            /\ seen[i].status \in {"grouped", "skipped"}
            /\ seen[i].status = "grouped" =>
                 /\ Occurrences(i) = 1
                 /\ ExpectedKey(seen[i]) \in DOMAIN filenames
                 /\ i \in Members(ExpectedKey(seen[i]))
            /\ seen[i].status = "skipped" =>
                 /\ mode = "h"
                 /\ Occurrences(i) = 0
                 /\ ~seen[i].opened /\ seen[i].digest = <<>>

C9_Witness ==
    /\ pc = "loop" /\ mode = "h" /\ Len(seen) = 3
    /\ seen[2].status = "skipped"
    /\ SameGroup(1, 3)

\* C10: at most one content file handle is open at any time; the handle of
\* an entry is closed before the next entry is processed and before the
\* function returns, after a successful hash and after a failed read.
C10_OneHandle ==
    /\ Cardinality(open) <= 1
    /\ pc = "process" => open = {Len(seen)}
    /\ pc # "process" => open = {}

C10_Witness ==
    /\ result = "Err" /\ open = {} /\ Len(seen) = 3
    /\ seen[1].opened /\ seen[1].status = "grouped"
    /\ seen[2].opened /\ seen[2].status = "grouped"
    /\ seen[3].opened /\ seen[3].status = "failed"

====
